---- MODULE Spec2Model ----
(***************************************************************************)
(* Model of src/main.py: the Avito API client (OAuth token lifecycle,      *)
(* request/retry discipline) and the polling cycle that answers unread     *)
(* inbound messages.                                                       *)
(*                                                                         *)
(* The program is one cooperative task.  Every step of the model is the    *)
(* code between two suspension points of process_new_messages; a call of   *)
(* AvitoClient.request is one step, and the HTTP exchanges it performs are *)
(* recorded, in order, in lastReq.http.                                    *)
(***************************************************************************)
EXTENDS Integers, Sequences, FiniteSets, TLC

\* ---------------------------------------------------------------- bounds
MaxTime == 60
MaxChats == 2
MaxMsgs == 2
LiveChats == 1
LiveMsgs == 1

\* ------------------------------------------------------ program constants
SafetyMargin == 300
DefaultExpiresIn == 3600
SleepInterval == 60
Unauthorized == 401

\* Python's None, and a present value
NONE == <<>>
Some(x) == <<x>>

\* ------------------------------------------------- the environment's data
Tokens == {"tokA", "tokB"}
Lifetimes == {240, 300, 360}

\* expires_in of a token response: absent, not a number, or a number
ExpiresIn ==
  {[kind |-> "absent", val |-> 0], [kind |-> "text", val |-> 0]}
    \cup {[kind |-> "num", val |-> l] : l \in Lifetimes}

\* answers of POST /token: a transport failure, a non-2xx status, or a 2xx
\* body with or without access_token
TokenResponses ==
  {[fail |-> f, access_token |-> NONE, expires_in |-> [kind |-> "absent", val |-> 0]] :
      f \in {"transport", "status"}}
    \cup {[fail |-> "none", access_token |-> a, expires_in |-> e] :
            a \in {NONE} \cup {Some(t) : t \in Tokens}, e \in {[kind |-> "absent", val |-> 0]}}
    \cup {[fail |-> "none", access_token |-> Some(t), expires_in |-> e] :
            t \in Tokens, e \in ExpiresIn}

ErrorBody == [error |-> "body"]
ErrorStatuses == {401, 403, 500}

\* answers of a messaging API call whose 2xx body is drawn from Data
ApiResponses(Data) ==
  {[fail |-> "transport", status |-> 0, data |-> ErrorBody]}
    \cup {[fail |-> "none", status |-> s, data |-> ErrorBody] : s \in ErrorStatuses}
    \cup {[fail |-> "none", status |-> 200, data |-> d] : d \in Data}

\* ------------------------------------------------------------ AvitoClient
\* mutant: a lifetime that does not exceed the margin is kept whole
expiry_of_floor(t, e) ==
  t + (IF e.kind = "absent" THEN DefaultExpiresIn - SafetyMargin
       ELSE IF e.val > SafetyMargin THEN e.val - SafetyMargin ELSE e.val)

\* mutant: the five-minute margin is not subtracted
expiry_of_no_margin(t, e) ==
  t + (IF e.kind = "absent" THEN DefaultExpiresIn ELSE e.val)

\* datetime.now() + timedelta(seconds=token_data.get('expires_in', 3600) - 300)
expiry_of(t, e) ==
  t + (IF e.kind = "absent" THEN DefaultExpiresIn ELSE e.val) - SafetyMargin

\* AvitoClient.get_token on the answer resp, the body being handled at time t:
\* post and raise_for_status raise before any assignment, token_data['access_token']
\* raises KeyError before the assignment of self.token, and the arithmetic on a
\* non-numeric expires_in raises TypeError after it.
get_token(tok, exp, t, resp) ==
  IF resp.fail # "none" \/ resp.access_token = NONE
  THEN [token |-> tok, expires |-> exp, raised |-> TRUE]
  ELSE IF resp.expires_in.kind = "text"
  THEN [token |-> resp.access_token, expires |-> exp, raised |-> TRUE]
  ELSE [token |-> resp.access_token,
        expires |-> Some(expiry_of(t, resp.expires_in)),
        raised |-> FALSE]

\* mutant: the token is still used at the very instant of its expiry
token_stale_strict(tok, exp, t) ==
  tok = NONE \/ (exp # NONE /\ t > exp[1])

\* the condition of ensure_token_valid
token_stale(tok, exp, t) ==
  tok = NONE \/ (exp # NONE /\ t >= exp[1])

\* the record kept of one POST /token exchange
TokenCall(tok, exp, t, resp) ==
  LET g == get_token(tok, exp, t, resp)
  IN [call |-> "token", resp |-> resp, at |-> t,
      before |-> [token |-> tok, expires |-> exp],
      after |-> [token |-> g.token, expires |-> g.expires],
      raised |-> g.raised]

\* AvitoClient.ensure_token_valid: the sequences of token exchanges it may
\* perform at time t (none, or one for each possible answer)
ensure_token_valid(tok, exp, t, TokenAnswers) ==
  IF token_stale(tok, exp, t)
  THEN {<<TokenCall(tok, exp, t, r)>> : r \in TokenAnswers}
  ELSE {<<>>}

\* str() of the token inside an f-string
Str(tok) == IF tok = NONE THEN "None" ELSE tok[1]
Bearer(tok) == <<"Bearer", Str(tok)>>

\* dict.update
update(h, c) ==
  [k \in DOMAIN h \cup DOMAIN c |-> IF k \in DOMAIN c THEN c[k] ELSE h[k]]

\* the headers dict request() builds from the stored token and kwargs["headers"]
build_headers(tok, kwHeaders) ==
  LET headers == [k \in {"Authorization", "Content-Type"} |->
                    IF k = "Authorization" THEN Bearer(tok) ELSE <<"application/json">>]
  IN IF kwHeaders = NONE THEN headers ELSE update(headers, kwHeaders[1])

\* headers["Authorization"] = f"Bearer {self.token}" before the retry
rebuild_headers(headers, tok) ==
  [headers EXCEPT !["Authorization"] = Bearer(tok)]

\* mutant: every error status is retried
needs_retry_any(resp) == resp.fail = "none" /\ resp.status >= 400

\* response.status_code == 401
needs_retry(resp) == resp.fail = "none" /\ resp.status = Unauthorized

\* the awaited call raises on a transport failure; raise_for_status raises on
\* every status that is not 2xx
raises(resp) == resp.fail # "none" \/ resp.status < 200 \/ resp.status >= 300

ApiCall(headers, resp) == [call |-> "api", headers |-> headers, resp |-> resp]

\* the token and expiry held after the exchanges in http, starting from tok, exp
TokenAfter(tok, exp, http) ==
  LET toks == SelectSeq(http, LAMBDA c : c.call = "token")
  IN IF toks = <<>> THEN [token |-> tok, expires |-> exp]
     ELSE toks[Len(toks)].after

Finish(tok, exp, http, raised, data) ==
  [http |-> http, raised |-> raised, data |-> data,
   token |-> TokenAfter(tok, exp, http).token,
   expires |-> TokenAfter(tok, exp, http).expires]

\* mutant: the answer of the second attempt is not assigned to 'response', so
\* raise_for_status sees the 401 of the first attempt
retry_stale_response(tok, exp, http, headers, Data) ==
  LET cur == TokenAfter(tok, exp, http)
      h2 == rebuild_headers(headers, cur.token)
  IN {Finish(tok, exp, Append(http, ApiCall(h2, r2)), TRUE, NONE) :
        r2 \in ApiResponses(Data)}

\* the second attempt of request(), after the forced get_token succeeded
retry(tok, exp, http, headers, Data) ==
  LET cur == TokenAfter(tok, exp, http)
      h2 == rebuild_headers(headers, cur.token)
  IN {Finish(tok, exp, Append(http, ApiCall(h2, r2)), raises(r2),
             IF raises(r2) THEN NONE ELSE Some(r2.data)) : r2 \in ApiResponses(Data)}

\* what request() does once the first answer r1 has arrived
after_first(tok, exp, t, http, headers, r1, Data, TokenAnswers) ==
  IF needs_retry(r1)
  THEN UNION {IF g[1].raised
              THEN {Finish(tok, exp, http \o g, TRUE, NONE)}
              ELSE retry(tok, exp, http \o g, headers, Data) :
                g \in {<<TokenCall(TokenAfter(tok, exp, http).token,
                                   TokenAfter(tok, exp, http).expires, t, r)>> :
                         r \in TokenAnswers}}
  ELSE {Finish(tok, exp, http, raises(r1),
               IF raises(r1) THEN NONE ELSE Some(r1.data))}

\* mutant: the exception of ensure_token_valid is swallowed and the call is
\* issued all the same
request_despite_failed_fetch(tok, exp, t, kwHeaders, Data, TokenAnswers) ==
  UNION {LET headers == build_headers(TokenAfter(tok, exp, e).token, kwHeaders)
         IN UNION {after_first(tok, exp, t, Append(e, ApiCall(headers, r1)),
                               headers, r1, Data, TokenAnswers) :
                     r1 \in ApiResponses(Data)} :
           e \in ensure_token_valid(tok, exp, t, TokenAnswers)}

\* AvitoClient.request at time t with the token state tok, exp: every outcome
\* it may have, for every sequence of answers of the server (2xx bodies drawn
\* from Data, answers of POST /token from TokenAnswers)
request(tok, exp, t, kwHeaders, Data, TokenAnswers) ==
  UNION {IF e # <<>> /\ e[1].raised
         THEN {Finish(tok, exp, e, TRUE, NONE)}
         ELSE LET headers == build_headers(TokenAfter(tok, exp, e).token, kwHeaders)
              IN UNION {after_first(tok, exp, t, Append(e, ApiCall(headers, r1)),
                                    headers, r1, Data, TokenAnswers) :
                          r1 \in ApiResponses(Data)} :
           e \in ensure_token_valid(tok, exp, t, TokenAnswers)}

\* ------------------------------------------------------- the remote data
\* the conversation at place i of a listing, with or without an 'id'; the ids
\* of a listing are distinct, and the code never compares them, so the
\* conversation listed at place i is given the id i
ChatAt(i) == {[id |-> NONE], [id |-> Some(i)]}

\* the 'content' of a message: no such key, an object without 'text', an
\* empty text, a text
Contents == {NONE, Some(NONE), Some(Some("")), Some(Some("hello"))}

Messages ==
  {[direction |-> d, is_read |-> r, content |-> c] :
     d \in {"in", "out"}, r \in BOOLEAN, c \in Contents}

\* the messages that pages of every length are made of: each direction and
\* read flag with a text, and the inbound unread message with an empty text
CoreMessages ==
  {m \in Messages :
     \/ m.content = Some(Some("hello")) /\ ~(m.direction = "out" /\ m.is_read)
     \/ m.content = Some(Some("")) /\ m.direction = "in" /\ ~m.is_read}

RECURSIVE SeqsUpTo(_, _)
SeqsUpTo(S, n) ==
  IF n = 0 THEN {<<>>}
  ELSE LET shorter == SeqsUpTo(S, n - 1)
       IN shorter \cup {Append(q, x) : q \in {r \in shorter : Len(r) = n - 1}, x \in S}

\* the 2xx bodies of the four operations
ChatListsUpTo(max) ==
  UNION {{q \in [1..n -> UNION {ChatAt(i) : i \in 1..n}] : \A i \in 1..n : q[i] \in ChatAt(i)} :
           n \in 0..max}
ChatLists == ChatListsUpTo(MaxChats)
Pages == SeqsUpTo(CoreMessages, MaxMsgs) \cup {<<m>> : m \in Messages}
Acks == {[ok |-> TRUE]}

\* the token endpoint as the polling cycle meets it: it fails, or issues a
\* token without expires_in.  What a call returns to process_new_messages
\* (a body or an exception) does not depend on the token answers; the richer
\* answers are explored at the level of the client, in SpecClient.
PlainTokenResponses ==
  {r \in TokenResponses :
     \/ r.fail = "transport"
     \/ r.fail = "none" /\ r.access_token = Some("tokA") /\ r.expires_in.kind = "absent"}

\* ------------------------------------------------------------- the state
VARIABLES
  token,          \* AvitoClient.token
  token_expires,  \* AvitoClient.token_expires
  now,            \* datetime.now(), in seconds
  pc,             \* where the polling task stands
  chats,          \* process_new_messages: the listed conversations
  ci,             \* index of the conversation being processed
  messages,       \* the fetched page of that conversation
  mi,             \* index of the message being processed
  log,            \* history: the calls made so far in the current tick, in order
  due,            \* history: the <<conversation, message>> positions of the pages
                  \* fetched in the current tick that call for a reply
  failed,         \* history: the call that ended the current tick early
  unmarked,       \* history: the conversation whose mark-read was the last API
                  \* call of the tick before and failed, 0 if there is none
  lastReq,        \* the last call of request(): its HTTP exchanges and outcome
  lifetime        \* history: the lifetime declared by the token answer that
                  \* token_expires was computed from, NONE if it declared none

vars ==
  <<token, token_expires, now, pc, chats, ci, messages, mi, log, due, failed,
    unmarked, lastReq, lifetime>>

loopVars == <<pc, chats, ci, messages, mi, log, due, failed, unmarked>>

NoRequest ==
  [op |-> "none", raised |-> FALSE, http |-> <<>>, data |-> NONE,
   before |-> [token |-> NONE, expires |-> NONE], at |-> 0]

\* AvitoClient.__init__
NewClient ==
  /\ token = NONE
  /\ token_expires = NONE
  /\ now = 0
  /\ lastReq = NoRequest
  /\ lifetime = NONE

NoTick ==
  /\ chats = <<>>
  /\ ci = 0
  /\ messages = <<>>
  /\ mi = 0
  /\ log = <<>>
  /\ due = <<>>
  /\ failed = "none"
  /\ unmarked = 0

\* polling_loop has entered its loop
Init ==
  /\ NewClient
  /\ NoTick
  /\ pc = "poll"

\* history: the lifetime declared by the last token answer among the
\* exchanges in http that get_token computed an expiry from
Declared(http) ==
  LET toks == SelectSeq(http, LAMBDA c : c.call = "token" /\ ~c.raised)
  IN IF toks = <<>> THEN lifetime
     ELSE IF toks[Len(toks)].resp.expires_in.kind = "num"
     THEN Some(toks[Len(toks)].resp.expires_in.val) ELSE NONE

\* the client's fields after a call of request() with the outcome res
Stored(res) ==
  /\ token' = res.token
  /\ token_expires' = res.expires
  /\ lifetime' = Declared(res.http)

\* a call made by the polling cycle: only the operation and whether it raised
\* are kept
Call(op, res) ==
  /\ Stored(res)
  /\ lastReq' = [NoRequest EXCEPT !.op = op, !.raised = res.raised]

get_chats == request(token, token_expires, now, NONE, ChatLists, PlainTokenResponses)
get_messages == request(token, token_expires, now, NONE, Pages, PlainTokenResponses)
send_message == request(token, token_expires, now, NONE, Acks, PlainTokenResponses)
mark_chat_as_read == request(token, token_expires, now, NONE, Acks, PlainTokenResponses)

Event(ev) == [ev |-> ev, ci |-> ci, mi |-> mi]

\* mutant: the sleep is skipped when process_new_messages returns
EndTick_no_sleep ==
  /\ pc' = "poll"
  /\ chats' = <<>>
  /\ ci' = 0
  /\ messages' = <<>>
  /\ mi' = 0

\* process_new_messages has returned: its locals are gone
EndTick ==
  /\ pc' = "sleep"
  /\ chats' = <<>>
  /\ ci' = 0
  /\ messages' = <<>>
  /\ mi' = 0

\* message.get('content', {}).get('text', '')
text_of(m) ==
  IF m.content = NONE THEN ""
  ELSE IF m.content[1] = NONE THEN "" ELSE m.content[1][1]

\* mutant: the read flag is not looked at
to_answer_ignoring_read(m) ==
  /\ ~(m.direction # "in")
  /\ text_of(m) # ""

\* mutant: the text is not looked at
to_answer_any_text(m) == ~(m.direction # "in" \/ m.is_read)

\* mutant: the task remembers the conversation it replied to without being
\* able to mark it read, and does not reply there again
to_answer_unless_replied(m) ==
  /\ ~(m.direction # "in" \/ m.is_read)
  /\ text_of(m) # ""
  /\ ci # unmarked

\* the two filters of the message loop: neither 'continue' is taken
to_answer(m) ==
  /\ ~(m.direction # "in" \/ m.is_read)
  /\ text_of(m) # ""

\* mutant: the exception of the send reaches the outer handler
after_send_uncaught(raised) == IF raised THEN "sleep" ELSE "mark"

\* where the task goes after the send: its exception is caught and logged
after_send(raised) == "mark"

\* mutant: the exception of the mark-read reaches the outer handler
after_mark_uncaught(raised) == IF raised THEN "sleep" ELSE "msg"

\* where the task goes after the mark-read: its exception is caught and logged
after_mark(raised) == "msg"

\* history: the positions of page p, fetched for conversation c, whose message
\* is inbound, unread and carries a text, read off the page itself and not
\* through the filters of the loop
Due(c, p) ==
  LET RECURSIVE from(_)
      from(j) ==
        IF j > Len(p) THEN <<>>
        ELSE (IF p[j].direction = "in" /\ p[j].is_read = FALSE
                 /\ p[j].content \notin {NONE, Some(NONE), Some(Some(""))}
              THEN <<(<<c, j>>)>> ELSE <<>>) \o from(j + 1)
  IN from(1)

\* ----------------------------------------------------------- the actions
\* a tick begins: process_new_messages lists the unread conversations, the
\* call having one of the outcomes in answers
ListChatsOf(answers) ==
  /\ pc = "poll"
  /\ \E res \in answers :
       /\ Call("get_chats", res)
       /\ log' = <<[ev |-> "get_chats", ci |-> 0, mi |-> 0,
                    n |-> IF res.raised THEN 0 ELSE Len(res.data[1])]>>
       /\ due' = <<>>
       /\ failed' = IF res.raised THEN "get_chats" ELSE "none"
       /\ IF res.raised \/ res.data[1] = <<>>
          THEN EndTick
          ELSE /\ pc' = "chat"
               /\ chats' = res.data[1]
               /\ ci' = 1
               /\ messages' = <<>>
               /\ mi' = 0
  /\ UNCHANGED <<now, unmarked>>

ListChats == ListChatsOf(get_chats)

\* the loop over chats is exhausted: process_new_messages returns
ChatsDone ==
  /\ pc = "chat"
  /\ ci > Len(chats)
  /\ EndTick
  /\ UNCHANGED <<unmarked, lifetime, token, token_expires, now, log, due, failed, lastReq>>

\* a conversation without an id is passed over
SkipChat ==
  /\ pc = "chat"
  /\ ci <= Len(chats)
  /\ chats[ci].id = NONE
  /\ ci' = ci + 1
  /\ UNCHANGED <<unmarked, lifetime, token, token_expires, now, pc, chats, messages, mi, log, due,
                 failed, lastReq>>

\* mutant: a failed fetch is treated like an empty page, and the loop goes on
\* with the next conversation
GetMessages_failure_skips ==
  /\ pc = "chat"
  /\ ci <= Len(chats)
  /\ chats[ci].id # NONE
  /\ \E res \in get_messages :
       /\ Call("get_messages", res)
       /\ log' = Append(log, [ev |-> "get_messages", ci |-> ci, mi |-> 0,
                               empty |-> res.raised \/ res.data[1] = <<>>])
       /\ IF res.raised
          THEN /\ ci' = ci + 1
               /\ failed' = "get_messages"
               /\ UNCHANGED <<pc, chats, messages, mi, due>>
          ELSE /\ due' = due \o Due(ci, res.data[1])
               /\ UNCHANGED failed
               /\ IF res.data[1] = <<>>
                  THEN /\ ci' = ci + 1
                       /\ UNCHANGED <<pc, chats, messages, mi>>
                  ELSE /\ pc' = "msg"
                       /\ messages' = res.data[1]
                       /\ mi' = 1
                       /\ UNCHANGED <<chats, ci>>
  /\ UNCHANGED <<now, unmarked>>

\* the messages of the conversation are fetched, the call having one of the
\* outcomes in answers; the history keeps whether it brought no message
GetMessagesOf(answers) ==
  /\ pc = "chat"
  /\ ci <= Len(chats)
  /\ chats[ci].id # NONE
  /\ \E res \in answers :
       /\ Call("get_messages", res)
       /\ log' = Append(log, [ev |-> "get_messages", ci |-> ci, mi |-> 0,
                               empty |-> res.raised \/ res.data[1] = <<>>])
       /\ IF res.raised
          THEN /\ EndTick
               /\ failed' = "get_messages"
               /\ UNCHANGED due
          ELSE /\ due' = due \o Due(ci, res.data[1])
               /\ UNCHANGED failed
               /\ IF res.data[1] = <<>>
                  THEN /\ ci' = ci + 1
                       /\ UNCHANGED <<pc, chats, messages, mi>>
                  ELSE /\ pc' = "msg"
                       /\ messages' = res.data[1]
                       /\ mi' = 1
                       /\ UNCHANGED <<chats, ci>>
  /\ UNCHANGED <<now, unmarked>>

GetMessages == GetMessagesOf(get_messages)

\* the loop over messages is exhausted: on to the next conversation
MessagesDone ==
  /\ pc = "msg"
  /\ mi > Len(messages)
  /\ pc' = "chat"
  /\ ci' = ci + 1
  /\ messages' = <<>>
  /\ mi' = 0
  /\ UNCHANGED <<unmarked, lifetime, token, token_expires, now, chats, log, due, failed, lastReq>>

\* a message that is outbound, read or without text is passed over
SkipMessage ==
  /\ pc = "msg"
  /\ mi <= Len(messages)
  /\ ~to_answer(messages[mi])
  /\ mi' = mi + 1
  /\ UNCHANGED <<unmarked, lifetime, token, token_expires, now, pc, chats, ci, messages, log, due,
                 failed, lastReq>>

\* mutant: the failure of generate_response is caught by no handler and ends
\* polling_loop
Generate_fatal ==
  /\ pc = "msg"
  /\ mi <= Len(messages)
  /\ to_answer(messages[mi])
  /\ log' = Append(log, Event("generate"))
  /\ \E ok \in BOOLEAN :
       IF ok
       THEN /\ pc' = "send"
            /\ UNCHANGED <<chats, ci, messages, mi, failed>>
       ELSE /\ pc' = "stopped"
            /\ failed' = "generate"
            /\ UNCHANGED <<chats, ci, messages, mi>>
  /\ UNCHANGED <<unmarked, lifetime, token, token_expires, now, due, lastReq>>

\* mutant: the failure of generate_response is caught at its message, as the
\* failures of the send and of the mark-read are
Generate_isolated ==
  /\ pc = "msg"
  /\ mi <= Len(messages)
  /\ to_answer(messages[mi])
  /\ log' = Append(log, Event("generate"))
  /\ \E ok \in BOOLEAN :
       IF ok
       THEN /\ pc' = "send"
            /\ UNCHANGED <<chats, ci, messages, mi, failed>>
       ELSE /\ mi' = mi + 1
            /\ failed' = "generate"
            /\ UNCHANGED <<pc, chats, ci, messages>>
  /\ UNCHANGED <<unmarked, lifetime, token, token_expires, now, due, lastReq>>

\* generate_response for the message; its failure leaves process_new_messages
\* through the outer handler
Generate ==
  /\ pc = "msg"
  /\ mi <= Len(messages)
  /\ to_answer(messages[mi])
  /\ log' = Append(log, Event("generate"))
  /\ \E ok \in BOOLEAN :
       IF ok
       THEN /\ pc' = "send"
            /\ UNCHANGED <<chats, ci, messages, mi, failed>>
       ELSE /\ EndTick
            /\ failed' = "generate"
  /\ UNCHANGED <<unmarked, lifetime, token, token_expires, now, due, lastReq>>

\* mutant: the send and the mark-read are started together and awaited
\* together (asyncio.gather), their exceptions collected
SendMessage_with_mark ==
  /\ pc = "send"
  /\ log' = log \o <<Event("send"), Event("mark")>>
  /\ \E res \in send_message :
       /\ Call("send_message", res)
       /\ pc' = "msg"
       /\ mi' = mi + 1
       /\ UNCHANGED <<chats, ci, messages, failed>>
  /\ UNCHANGED <<now, due, unmarked>>

\* the reply is sent
SendMessage ==
  /\ pc = "send"
  /\ log' = Append(log, Event("send"))
  /\ \E res \in send_message :
       /\ Call("send_message", res)
       /\ IF after_send(res.raised) = "sleep"
          THEN EndTick /\ failed' = "send"
          ELSE /\ pc' = after_send(res.raised)
               /\ UNCHANGED <<chats, ci, messages, mi, failed>>
  /\ UNCHANGED <<now, due, unmarked>>

\* mutant: the conversation is marked read only when the reply went out
MarkRead_unless_send_failed ==
  /\ pc = "mark"
  /\ IF lastReq.raised
     THEN /\ pc' = "msg"
          /\ mi' = mi + 1
          /\ UNCHANGED <<token, token_expires, lifetime, lastReq, log, chats, ci,
                         messages, failed>>
     ELSE /\ log' = Append(log, Event("mark"))
          /\ \E res \in mark_chat_as_read :
               /\ Call("mark_chat_as_read", res)
               /\ pc' = "msg"
               /\ mi' = mi + 1
               /\ UNCHANGED <<chats, ci, messages, failed>>
  /\ UNCHANGED <<now, due, unmarked>>

\* the conversation is marked read
MarkRead ==
  /\ pc = "mark"
  /\ log' = Append(log, Event("mark"))
  /\ \E res \in mark_chat_as_read :
       /\ Call("mark_chat_as_read", res)
       /\ IF after_mark(res.raised) = "sleep"
          THEN EndTick /\ failed' = "mark"
          ELSE /\ pc' = after_mark(res.raised)
               /\ mi' = mi + 1
               /\ UNCHANGED <<chats, ci, messages, failed>>
  /\ UNCHANGED <<now, due, unmarked>>

\* history: the conversation left unread by the tick that has ended
Unmarked ==
  IF lastReq.op = "mark_chat_as_read" /\ lastReq.raised
  THEN log[Len(log)].ci ELSE 0

\* polling_loop: asyncio.sleep(60), then the next tick, whose history is empty
Sleep ==
  /\ pc = "sleep"
  /\ now + SleepInterval <= MaxTime
  /\ now' = now + SleepInterval
  /\ pc' = "poll"
  /\ log' = <<>>
  /\ due' = <<>>
  /\ failed' = "none"
  /\ unmarked' = Unmarked
  /\ UNCHANGED <<token, token_expires, lifetime, chats, ci, messages, mi, lastReq>>

Next ==
  \/ ListChats
  \/ ChatsDone
  \/ SkipChat
  \/ GetMessages
  \/ MessagesDone
  \/ SkipMessage
  \/ Generate
  \/ SendMessage
  \/ MarkRead
  \/ Sleep

Spec == Init /\ [][Next]_vars

\* ------------------------------------------- the polling loop without end
\* The clock of the model stops at MaxTime, the loop does not.  Past MaxTime
\* the sleep is kept and the clock is read relative to the stored expiry: all
\* the code does with the two is compare them (line 65), so a sleep either
\* leaves the held token unexpired or brings the clock to its expiry.
SleepOn ==
  /\ pc = "sleep"
  /\ now + SleepInterval > MaxTime
  /\ pc' = "poll"
  /\ log' = <<>>
  /\ due' = <<>>
  /\ failed' = "none"
  /\ unmarked' = Unmarked
  /\ \/ UNCHANGED token_expires
     \/ /\ token_expires # NONE
        /\ token_expires[1] > now
        /\ token_expires' = Some(now)
  /\ UNCHANGED <<token, lifetime, now, chats, ci, messages, mi, lastReq>>

\* the listings and pages of the endless loop
LiveChatLists == ChatListsUpTo(LiveChats)
LivePages == SeqsUpTo(CoreMessages, LiveMsgs)

LiveListChats ==
  ListChatsOf(request(token, token_expires, now, NONE, LiveChatLists, PlainTokenResponses))

LiveGetMessages ==
  GetMessagesOf(request(token, token_expires, now, NONE, LivePages, PlainTokenResponses))

NextLive ==
  \/ LiveListChats
  \/ ChatsDone
  \/ SkipChat
  \/ LiveGetMessages
  \/ MessagesDone
  \/ SkipMessage
  \/ Generate
  \/ SendMessage
  \/ MarkRead
  \/ Sleep
  \/ SleepOn

\* the task is the only one of the event loop: whenever it can take a step
\* (its call has returned or raised, its sleep is over) it does
SpecLive == Init /\ [][NextLive]_vars /\ WF_vars(NextLive)

\* ------------------------------------------------- the client on its own
\* headers a caller of request() may pass in kwargs
CallerHeaders ==
  {Some([k \in {"Authorization"} |-> <<"Basic", "caller">>]),
   Some([k \in {"X-Request-Id"} |-> <<"r1">>])}

\* a call of request() by any caller: all its HTTP exchanges are kept
ClientCall(op, kwHeaders, Data) ==
  /\ pc = "caller"
  /\ \E res \in request(token, token_expires, now, kwHeaders, Data, TokenResponses) :
       /\ Stored(res)
       /\ lastReq' = [op |-> op, raised |-> res.raised, http |-> res.http,
                      data |-> res.data,
                      before |-> [token |-> token, expires |-> token_expires],
                      at |-> now]
  /\ pc' = "returned"
  /\ UNCHANGED <<now, chats, ci, messages, mi, log, due, failed, unmarked>>

ClientGetChats == ClientCall("get_chats", NONE, ChatLists)
ClientGetMessages == ClientCall("get_messages", NONE, Pages)
ClientSendMessage == ClientCall("send_message", NONE, Acks)
ClientMarkRead == ClientCall("mark_chat_as_read", NONE, Acks)
ClientRequest == \E h \in CallerHeaders : ClientCall("request", h, Acks)

\* the caller has taken the result or the exception of the call
ClientReturn ==
  /\ pc = "returned"
  /\ pc' = "caller"
  /\ lastReq' = NoRequest
  /\ UNCHANGED <<unmarked, lifetime, token, token_expires, now, chats, ci, messages, mi, log, due, failed>>

\* time passes between two calls
ClientWait ==
  /\ pc = "caller"
  /\ now + SleepInterval <= MaxTime
  /\ now' = now + SleepInterval
  /\ UNCHANGED <<token, token_expires, lifetime, lastReq>>
  /\ UNCHANGED loopVars

InitClient ==
  /\ NewClient
  /\ NoTick
  /\ pc = "caller"

NextClient ==
  \/ ClientGetChats
  \/ ClientGetMessages
  \/ ClientSendMessage
  \/ ClientMarkRead
  \/ ClientRequest
  \/ ClientReturn
  \/ ClientWait

SpecClient == InitClient /\ [][NextClient]_vars

\* ------------------------------------------------------------ properties
\* what a call of request() hands to its caller: an exception, or a body
Outcomes(TokenAnswers) ==
  {<<r.raised, r.data>> :
     r \in request(token, token_expires, now, NONE, Acks, TokenAnswers)}

\* In every state of the client a call may raise and may return each body,
\* whichever answers the token endpoint gives: the polling cycle, which sees
\* nothing else of a call, loses no behaviour with PlainTokenResponses.
PlainAnswersSuffice ==
  pc \in {"caller", "poll", "chat", "send", "mark"}
    => /\ Outcomes(TokenResponses) = Outcomes(PlainTokenResponses)
       /\ Outcomes(PlainTokenResponses)
            = {<<TRUE, NONE>>} \cup {<<FALSE, Some(a)>> : a \in Acks}

ApiCalls(http) == SelectSeq(http, LAMBDA c : c.call = "api")
TokenCalls(http) == SelectSeq(http, LAMBDA c : c.call = "token")

Is401(r) == r.fail = "none" /\ r.status = 401
Is200(r) == r.fail = "none" /\ r.status = 200
IsTransport(r) == r.fail = "transport"
IsOtherError(r) == r.fail = "none" /\ r.status # 401 /\ ~(r.status \in 200..299)

\* C1: one invocation of request() issues at most two calls to the messaging
\* API; a second one only after a first answer with status 401; any other
\* non-2xx first answer, and a transport failure on either attempt, is raised
\* to the caller and is the last exchange of the request.
C1_AtMostOneRetry ==
  LET http == lastReq.http
      api == ApiCalls(http)
  IN /\ Len(api) <= 2
     /\ Len(api) = 2 => Is401(api[1].resp)
     /\ \A i \in 1..Len(http) :
          (http[i].call = "api" /\ (IsTransport(http[i].resp) \/ IsOtherError(http[i].resp)))
            => (lastReq.raised /\ i = Len(http))

C1_Witness ==
  /\ pc = "returned"
  /\ Len(ApiCalls(lastReq.http)) = 2
  /\ IsTransport(ApiCalls(lastReq.http)[2].resp)
  /\ lastReq.raised

\* the token held before the request was strictly before its stored expiry
HeldUnexpired ==
  /\ lastReq.before.token # NONE
  /\ lastReq.before.expires # NONE
  /\ lastReq.at < lastReq.before.expires[1]

\* C2: starting from a held, unexpired token, a 401 followed by a 200 returns
\* the body of the second answer after exactly one get_token(); a 401 followed
\* by a 401 raises after two attempts and exactly one get_token().
C2_RetryOnce ==
  LET http == lastReq.http
      api == ApiCalls(http)
  IN (pc = "returned" /\ HeldUnexpired /\ Len(api) >= 2 /\ Is401(api[1].resp))
       => /\ Is200(api[2].resp)
             => /\ ~lastReq.raised
                /\ lastReq.data = Some(api[2].resp.data)
                /\ Len(TokenCalls(http)) = 1
          /\ Is401(api[2].resp)
             => /\ lastReq.raised
                /\ Len(api) = 2
                /\ Len(TokenCalls(http)) = 1

C2_Witness ==
  LET api == ApiCalls(lastReq.http)
  IN /\ pc = "returned"
     /\ HeldUnexpired
     /\ Len(api) = 2
     /\ Is401(api[1].resp)
     /\ Is200(api[2].resp)
     /\ ~lastReq.raised

\* C3: whenever get_token() raises, token and token_expires both have the
\* values they had before the call.
C3_NoPartialUpdate ==
  \A i \in 1..Len(lastReq.http) :
    LET c == lastReq.http[i]
    IN (c.call = "token" /\ c.raised) => c.after = c.before

\* C4: ensure_token_valid() performs exactly one token fetch when no token is
\* held or the time is at or after the stored expiry, and none (the first
\* exchange of the request is the API call, made with the token held before)
\* when a token is held and the time is strictly before the stored expiry.
C4_EnsureTokenValid ==
  LET http == lastReq.http
      b == lastReq.before
      stale == b.token = NONE \/ (b.expires # NONE /\ lastReq.at >= b.expires[1])
  IN pc = "returned"
       => /\ stale => /\ http[1].call = "token"
                      /\ Len(http) >= 2 => http[2].call = "api"
          /\ HeldUnexpired
               => /\ http[1].call = "api"
                  /\ lastReq.op # "request"
                       => http[1].headers["Authorization"] = <<"Bearer", b.token[1]>>

C4_Witness ==
  /\ pc = "returned"
  /\ lastReq.before.token # NONE
  /\ lastReq.before.expires # NONE
  /\ lastReq.at = lastReq.before.expires[1]
  /\ lastReq.http[1].call = "token"

\* C5: after a successful get_token() at time t with a declared lifetime
\* L > 300, the stored expiry is t + L - 300.
C5_ExpiryMargin ==
  \A i \in 1..Len(lastReq.http) :
    LET c == lastReq.http[i]
    IN (c.call = "token" /\ ~c.raised /\ c.resp.expires_in.kind = "num"
          /\ c.resp.expires_in.val > 300)
         => c.after.expires = <<c.at + c.resp.expires_in.val - 300>>

C5_Witness ==
  /\ pc = "returned"
  /\ token # NONE
  /\ token_expires = <<now + 60>>
  /\ \E i \in 1..Len(lastReq.http) :
       /\ lastReq.http[i].call = "token"
       /\ ~lastReq.http[i].raised
       /\ lastReq.http[i].resp.expires_in = [kind |-> "num", val |-> 360]

\* the <<conversation, message>> positions of the calls named ev, in the
\* order they were made in the current tick
Positions(ev) ==
  LET evs == SelectSeq(log, LAMBDA e : e.ev = ev)
  IN [i \in 1..Len(evs) |-> <<evs[i].ci, evs[i].mi>>]

InSeq(x, q) == \E i \in 1..Len(q) : q[i] = x

\* the tick was ended early by a listing, message-fetch or generation failure
TickAborted == failed \in {"get_chats", "get_messages", "generate"}

\* C6: in a tick without a listing, message-fetch or generation failure, a
\* reply is generated and a send attempted for exactly the inbound, unread,
\* non-empty messages of the fetched pages, once each, in listing and page
\* order; no other message ever triggers a generate or a send.
C6_RepliesExactlyDue ==
  /\ (pc = "sleep" /\ ~TickAborted)
       => (Positions("generate") = due /\ Positions("send") = due)
  /\ \A i \in 1..Len(log) :
       /\ log[i].ev = "generate"
            => /\ InSeq(<<log[i].ci, log[i].mi>>, due)
               /\ i < Len(log)
                    => (log[i + 1].ev = "send" /\ log[i + 1].ci = log[i].ci
                          /\ log[i + 1].mi = log[i].mi)
       /\ log[i].ev = "send"
            => (log[i - 1].ev = "generate" /\ log[i - 1].ci = log[i].ci
                  /\ log[i - 1].mi = log[i].mi)

C6_Witness ==
  /\ pc = "sleep"
  /\ failed = "none"
  /\ Len(due) = 3
  /\ Len(SelectSeq(log, LAMBDA e : e.ev = "get_messages")) = 2
  /\ Positions("send") = due

\* C7: a failed mark-read is caught at its message: the task goes on to the
\* next message of the page with the listing, the page and the record of
\* failures as they were, exactly as after a successful mark-read.
C7_MarkFailureCaught ==
  [][(pc = "mark" /\ lastReq'.raised)
       => (pc' = "msg" /\ mi' = mi + 1 /\ ci' = ci /\ chats' = chats
             /\ messages' = messages /\ failed' = failed)]_vars

C7_Witness ==
  /\ pc = "send"
  /\ lastReq.op = "mark_chat_as_read"
  /\ lastReq.raised
  /\ log[Len(log)].ev = "generate"

\* C8: a failed send is caught at its message: the task stands at the
\* mark-read of the same message, and its next step is that mark-read call.
C8_SendFailureCaught ==
  [][/\ (pc = "send" /\ lastReq'.raised)
          => (pc' = "mark" /\ mi' = mi /\ ci' = ci /\ chats' = chats
                /\ messages' = messages /\ failed' = failed)
     /\ pc = "mark"
          => (lastReq'.op = "mark_chat_as_read"
                /\ log' = Append(log, [ev |-> "mark", ci |-> ci, mi |-> mi]))]_vars

C8_Witness ==
  /\ pc = "mark"
  /\ lastReq.op = "send_message"
  /\ lastReq.raised

\* the listing of the current tick returned no conversation
EmptyListing == log # <<>> /\ failed # "get_chats" /\ log[1].n = 0

\* C9: in a tick whose listing returns zero conversations the listing is the
\* only call made, the task goes to sleep, and the next tick begins 60 seconds
\* later.
C9_EmptyListingSleeps ==
  /\ [](EmptyListing => (Len(log) = 1 /\ pc = "sleep"))
  /\ [][pc = "sleep" => (pc' = "poll" /\ now' = now + 60)]_vars

C9_Witness ==
  /\ EmptyListing
  /\ pc = "sleep"
  /\ now = 60

HasText(m) ==
  /\ m.content # NONE
  /\ m.content[1] # NONE
  /\ m.content[1][1] # ""

\* C10: a message whose text is empty or absent is passed over whatever its
\* direction and read flag: no generate, send or mark-read call is made for it.
C10_EmptyTextSkipped ==
  /\ [](pc \in {"msg", "send", "mark"}
          => \A i \in 1..Len(log) :
               (log[i].ev \in {"generate", "send", "mark"} /\ log[i].ci = ci)
                 => HasText(messages[log[i].mi]))
  /\ [][(pc = "msg" /\ mi <= Len(messages) /\ ~HasText(messages[mi]))
          => (pc' = "msg" /\ mi' = mi + 1 /\ log' = log /\ ci' = ci
                /\ chats' = chats /\ messages' = messages)]_vars

C10_Witness ==
  /\ pc = "msg"
  /\ mi = 2
  /\ messages[1].direction = "in"
  /\ ~messages[1].is_read
  /\ ~HasText(messages[1])
  /\ log[Len(log)].ev = "get_messages"

\* the token stored when exchange i of the request is issued
TokenAt(i) ==
  TokenAfter(lastReq.before.token, lastReq.before.expires,
             SubSeq(lastReq.http, 1, i - 1)).token

\* C11: the Authorization header of every API call of a request, the retry
\* included, is "Bearer " followed by the token stored when the call is
\* issued, also when the caller passes an Authorization header of its own;
\* the headers the caller passes under other keys are sent as passed.
C11_AuthorizationIsBearer ==
  \A i \in 1..Len(lastReq.http) :
    LET c == lastReq.http[i]
    IN c.call = "api"
         => /\ c.headers["Authorization"] = <<"Bearer", Str(TokenAt(i))>>
            /\ "X-Request-Id" \in DOMAIN c.headers
                 => c.headers["X-Request-Id"] = <<"r1">>

LastEvent == log[Len(log)]

\* C12: a failed generation ends the tick there: the generate call is the
\* last call of the tick (no send or mark-read for that message, no later
\* message or conversation touched), the task is asleep, and its only step is
\* the end of the 60-second sleep, after which the next tick lists again.
C12_GenerateFailureEndsTick ==
  /\ [](failed = "generate" => (pc = "sleep" /\ LastEvent.ev = "generate"))
  /\ [][failed = "generate"
          => (pc' = "poll" /\ now' = now + 60 /\ log' = <<>>)]_vars
  /\ [][(pc = "msg" /\ failed' = "generate")
          => (log' = Append(log, [ev |-> "generate", ci |-> ci, mi |-> mi])
                /\ pc' = "sleep")]_vars
  /\ [][pc = "poll" => (Len(log') = 1 /\ log'[1].ev = "get_chats")]_vars

\* the generation fails for the second message of the first of two listed
\* conversations, after the first message was answered and marked read
C12_Witness ==
  /\ pc = "sleep"
  /\ failed = "generate"
  /\ log[1].n = 2
  /\ LastEvent = [ev |-> "generate", ci |-> 1, mi |-> 2]
  /\ \E i \in 1..Len(log) : log[i].ev = "mark"

\* C13: a failed message fetch is the last call of its tick: the calls made
\* before it stay as they were, the task is asleep, and its only step leads to
\* the next tick; an empty page passes the loop on to the next conversation of
\* the same listing, and a page with messages is gone through.
C13_FetchFailureEndsTick ==
  /\ [](failed = "get_messages"
          => (pc = "sleep" /\ LastEvent.ev = "get_messages"))
  /\ [][(pc = "chat" /\ failed' = "get_messages")
          => (pc' = "sleep"
                /\ log' = Append(log, [ev |-> "get_messages", ci |-> ci,
                                       mi |-> 0, empty |-> TRUE]))]_vars
  /\ [][failed = "get_messages"
          => (pc' = "poll" /\ now' = now + 60 /\ log' = <<>>)]_vars
  /\ [][(pc = "chat" /\ log' # log /\ failed' = "none")
          => IF log'[Len(log')].empty
             THEN /\ pc' = "chat" /\ ci' = ci + 1 /\ chats' = chats
                  /\ log'[Len(log')].ci = ci /\ due' = due
             ELSE /\ pc' = "msg" /\ ci' = ci /\ chats' = chats /\ mi' = 1
                  /\ messages' # <<>>]_vars

\* the fetch fails for the second conversation after a reply was sent and
\* marked read in the first
C13_Witness ==
  /\ pc = "sleep"
  /\ failed = "get_messages"
  /\ LastEvent.ci = 2
  /\ \E i \in 1..Len(log) : log[i].ev = "mark" /\ log[i].ci = 1

\* an empty page for the first of two conversations, and the second is fetched
C13_WitnessEmptyPage ==
  /\ Len(log) = 3
  /\ log[2].ev = "get_messages" /\ log[2].empty /\ log[2].ci = 1
  /\ log[3].ev = "get_messages" /\ log[3].ci = 2

\* C14: no outcome of the listing, message-fetch, generate, send, mark-read
\* and token-fetch calls stops the loop: every tick ends in the sleep, every
\* sleep ends in the next tick, and so a new tick begins again and again.
C14_LoopNeverStops ==
  /\ (pc # "sleep") ~> (pc = "sleep")
  /\ (pc = "sleep") ~> (pc = "poll" /\ log = <<>>)
  /\ []<>(pc = "poll")

\* a tick begins past the end of the clock, the last call of the tick before
\* having raised
C14_Witness ==
  /\ pc = "poll"
  /\ now + SleepInterval > MaxTime
  /\ lastReq.raised
  /\ token # NONE
  /\ token_expires = Some(now)

\* C15: no call of the messaging API is issued while no token is held: a
\* request of a client without a token begins with a token fetch, every API
\* call is issued with a token stored, and a token fetch that raises, be it
\* the one of ensure_token_valid or the forced one after a 401, is the last
\* exchange of its request, which raises.
C15_NoCallWithoutToken ==
  LET http == lastReq.http
  IN /\ (pc = "returned" /\ lastReq.before.token = NONE) => http[1].call = "token"
     /\ \A i \in 1..Len(http) :
          /\ http[i].call = "api" => TokenAt(i) # NONE
          /\ (http[i].call = "token" /\ http[i].raised)
               => (i = Len(http) /\ lastReq.raised)

\* a client without a token calls, and the token fetch fails
C15_Witness ==
  /\ pc = "returned"
  /\ lastReq.before.token = NONE
  /\ Len(lastReq.http) = 1
  /\ lastReq.http[1].call = "token"
  /\ lastReq.http[1].resp.fail = "status"
  /\ token = NONE
  /\ lastReq.raised

\* the forced fetch after a 401 fails
C15_WitnessForcedFetch ==
  /\ pc = "returned"
  /\ HeldUnexpired
  /\ Len(lastReq.http) = 2
  /\ Is401(lastReq.http[1].resp)
  /\ lastReq.http[2].call = "token"
  /\ lastReq.http[2].raised
  /\ lastReq.raised

\* the place of a call in the order of the program text
Rank(e) ==
  IF e.ev = "get_chats" THEN <<0, 0, 0>>
  ELSE IF e.ev = "get_messages" THEN <<e.ci, 0, 0>>
  ELSE <<e.ci, e.mi, IF e.ev = "generate" THEN 1 ELSE IF e.ev = "send" THEN 2 ELSE 3>>

Before(a, b) ==
  \/ a[1] < b[1]
  \/ a[1] = b[1] /\ a[2] < b[2]
  \/ a[1] = b[1] /\ a[2] = b[2] /\ a[3] < b[3]

\* C16: the task has at most one call under way.  A step of the task runs
\* from one suspension to the next, so calls started in the same step would be
\* in flight together: every step starts at most one call; the calls of a tick
\* follow each other in the order of conversations and messages, none for an
\* earlier message after one for a later; a tick starts only from the idle
\* loop, with the locals and calls of the tick before gone, and the sleeping
\* task makes no call.
C16_OneCallAtATime ==
  /\ [][\/ log' = log
        \/ log' = <<>> /\ pc = "sleep" /\ lastReq' = lastReq
        \/ /\ Len(log') = Len(log) + 1
           /\ SubSeq(log', 1, Len(log)) = log
           /\ pc # "sleep"]_vars
  /\ [](\A i \in 1..(Len(log) - 1) : Before(Rank(log[i]), Rank(log[i + 1])))
  /\ [][(log' # log /\ log' # <<>> /\ log'[Len(log')].ev = "get_chats")
          => (pc = "poll" /\ log = <<>> /\ chats = <<>> /\ messages = <<>>)]_vars
  /\ [](pc \in {"poll", "sleep"} => (chats = <<>> /\ messages = <<>>))

\* in the second tick two conversations are answered, one after the other
C16_Witness ==
  /\ now = 60
  /\ Len(log) >= 8
  /\ log[Len(log)].ev = "mark"
  /\ log[Len(log)].ci = 2
  /\ \E i \in 1..Len(log) : log[i].ev = "mark" /\ log[i].ci = 1

\* the message is inbound, unread and carries a text, read off the message
\* itself
StillUnread(m) ==
  /\ m.direction = "in"
  /\ m.is_read = FALSE
  /\ HasText(m)

\* C17: nothing about answered messages survives a tick.  When the mark-read
\* of conversation c failed in the tick before and this tick's listing and
\* fetch return c with an inbound unread message again, the task generates a
\* reply for it once more, and by the end of a tick with no listing, fetch or
\* generation failure a reply has been sent to every such message of c.
C17_RepliedAgain ==
  /\ [](pc \in {"poll", "sleep"}
          => (chats = <<>> /\ messages = <<>> /\ ci = 0 /\ mi = 0))
  /\ [][(pc = "msg" /\ unmarked # 0 /\ ci = unmarked /\ mi <= Len(messages)
           /\ StillUnread(messages[mi]))
          => log' = Append(log, [ev |-> "generate", ci |-> ci, mi |-> mi])]_vars
  /\ []((pc = "sleep" /\ unmarked # 0 /\ ~TickAborted)
          => \A i \in 1..Len(due) :
               due[i][1] = unmarked
                 => (InSeq(due[i], Positions("generate")) /\ InSeq(due[i], Positions("send"))))

\* the mark-read of conversation 1 failed at the end of the first tick; in the
\* second tick its message is unread again and a second reply has been sent
C17_Witness ==
  /\ now = 60
  /\ unmarked = 1
  /\ pc = "mark"
  /\ ci = 1
  /\ StillUnread(messages[mi])
  /\ LastEvent = [ev |-> "send", ci |-> 1, mi |-> mi]

\* C18: a token fetched with a declared lifetime of at most 300 seconds has a
\* stored expiry that is not after the time of the fetch; the expiry stays at
\* or before the clock from then on, and every later call of request() begins
\* with a new token fetch.
C18_ShortLifetimeStale ==
  /\ [](\A i \in 1..Len(lastReq.http) :
          LET c == lastReq.http[i]
          IN (c.call = "token" /\ ~c.raised /\ c.resp.expires_in.kind = "num"
                /\ c.resp.expires_in.val <= 300)
               => (c.after.expires # NONE /\ c.after.expires[1] <= c.at))
  /\ []((lifetime # NONE /\ lifetime[1] <= 300)
          => (token # NONE /\ token_expires # NONE /\ token_expires[1] <= now))
  /\ [][(pc = "caller" /\ pc' = "returned" /\ lifetime # NONE /\ lifetime[1] <= 300)
          => (lastReq'.http[1].call = "token"
                /\ lastReq'.http[1].before = [token |-> token, expires |-> token_expires])]_vars

\* a token fetched at time 0 with a lifetime of 240 seconds is fetched anew
\* by the call made 60 seconds later
C18_Witness ==
  /\ pc = "returned"
  /\ lastReq.at = 60
  /\ lastReq.before.token # NONE
  /\ lastReq.before.expires = Some(0 + 240 - 300)
  /\ lastReq.http[1].call = "token"
  /\ ~lastReq.http[1].raised

\* the number of calls named ev made for conversation c in the current tick
Count(ev, c) == Len(SelectSeq(log, LAMBDA e : e.ev = ev /\ e.ci = c))

\* the generation that failed, if it was for conversation c
FailedGeneration(c) ==
  IF failed = "generate" /\ LastEvent.ci = c THEN 1 ELSE 0

\* C19: within a tick the mark-read of a conversation is attempted once after
\* each send attempt and at no other time: every mark-read follows the send
\* for the same message, every send is followed by it, the mark-read attempts
\* for a conversation are as many as the replies generated for it, and a
\* conversation whose page holds no inbound unread message with a text is not
\* marked read.
C19_MarkReadPerReply ==
  /\ \A i \in 1..Len(log) :
       /\ log[i].ev = "mark"
            => (i > 1 /\ log[i - 1] = [ev |-> "send", ci |-> log[i].ci, mi |-> log[i].mi]
                  /\ InSeq(<<log[i].ci, log[i].mi>>, due))
       /\ log[i].ev = "send"
            => IF i < Len(log)
               THEN log[i + 1] = [ev |-> "mark", ci |-> log[i].ci, mi |-> log[i].mi]
               ELSE pc = "mark"
  /\ pc \in {"chat", "msg", "sleep"}
       => \A c \in 1..MaxChats :
            /\ Count("mark", c) = Count("send", c)
            /\ Count("mark", c) = Count("generate", c) - FailedGeneration(c)
            /\ (\A i \in 1..Len(due) : due[i][1] # c) => Count("mark", c) = 0

\* two replies and two mark-read attempts for the first conversation, a page
\* with nothing to answer and no mark-read for the second
C19_Witness ==
  /\ pc = "sleep"
  /\ failed = "none"
  /\ Count("generate", 1) = 2
  /\ Count("mark", 1) = 2
  /\ \E i \in 1..Len(log) : log[i].ev = "get_messages" /\ log[i].ci = 2 /\ ~log[i].empty
  /\ Count("mark", 2) = 0

====
